---- MODULE Spec2Model ----
(***************************************************************************)
(* A model of espcfg (src/src/espcfg/main.py): the apply engine            *)
(* (Processor), the control adapters, the island decoder and the           *)
(* two-phase discovery.                                                    *)
(*                                                                         *)
(* Text is modelled as a sequence of tokens: "!submit?" is                 *)
(* <<"!", "submit", "?">>, the empty string is <<>>.  startswith, endswith *)
(* and slicing act on the tokens, so the directive syntax is parsed as the *)
(* code parses it.  Values that are only compared for equality are plain   *)
(* strings.                                                                *)
(***************************************************************************)
EXTENDS Integers, Sequences, FiniteSets, TLC

VARIABLES
    \* ---- Processor: inputs of one run of `config` ----
    dryRun,      \* Processor.dryRun
    failFast,    \* Processor.failFast
    name2ip,     \* Processor.name2ip, the alias map
    precheckOpt, \* the --precheck option
    host,        \* the --host option, None when not given
    islands,     \* the decoded islands handed to precheck/process
    \* ---- the devices ----
    onchange,    \* whether the page markup of <select name="s"> has onchange
    server,      \* server[addr][url]: the form state held by the device
    \* ---- Processor: position in the run ----
    pc,          \* where the run stands
    exc,         \* the exception that ended the run, "none" while running
    pcUnits,     \* precheck: sorted(units)
    pcIdx,       \* precheck: index of the next unit to check
    failed,      \* precheck: the `failed` list
    isl,         \* process: index of the island
    uidx,        \* processIsland: index of the unit
    pidx,        \* processUnit: index of the page in island.urls
    ridx,        \* processUnit: index of the row in the page's rows
    form,        \* processUnit: the browser's current form
    changed,     \* processUnit: the per-page changed flag
    trace,       \* everything the run did, in order
    \* ---- Discovery: one run of `discover` ----
    timeout,     \* the --timeout option
    dpc,         \* where discoverUnits stands
    phase,       \* 1: the direct probes, 2: the probes of the mesh neighbours
    iplist,      \* iplist[ph]: the addresses phase ph probes
    threads,     \* threads[ph]: the probe threads phase ph started, in order
    joined,      \* discoverUnitsInThread: the number of threads joined
    collector,   \* collector[ph]: the queue of phase ph
    loaded,      \* _loadCollector: the `units` dict it is filling
    units,       \* discoverUnits: the `units` dict
    units1,      \* history: `units` as Phase 1 returned it
    files,       \* the per-unit cache files under var/
    \* ---- the island decoder: one call of readIslands ----
    table,       \* the grid of cells, rows and columns counted from 1
    rpc,         \* where readIslands stands
    srow,        \* readIslands: ridx, the row of the scan
    scol,        \* readIslands: cidx, the column of the scan
    roffset,     \* loadIsland: roffset
    isUnits,     \* loadIsland: units
    isData,      \* loadIsland: data
    isUrls,      \* loadIsland: urls
    prevRow,     \* loadIsland: prevRow, <<>> for None, else <<row>>
    decoded,     \* readIslands: islands
    rexc,        \* the exception that ended readIslands, "none" otherwise
    \* ---- one control adapter, called on its own ----
    adapter,     \* the Control object: its class and its browserControl
    calls        \* the calls made on it, in order, with what they gave

applyVars == <<dryRun, failFast, name2ip, precheckOpt, host, islands, onchange,
               server, pc, exc, pcUnits, pcIdx, failed, isl, uidx, pidx, ridx,
               form, changed, trace>>

discoverVars == <<timeout, dpc, phase, iplist, threads, joined, collector, loaded,
                  units, units1, files>>

decodeVars == <<table, rpc, srow, scol, roffset, isUnits, isData, isUrls, prevRow,
                decoded, rexc>>

controlVars == <<adapter, calls>>

\* what the Processor leaves alone
notApply == <<discoverVars, decodeVars, controlVars>>

\* what Discovery leaves alone
notDiscover == <<applyVars, decodeVars, controlVars>>

\* what the decoder leaves alone
notDecode == <<applyVars, discoverVars, controlVars>>

\* what the calls on one adapter leave alone
notControl == <<applyVars, discoverVars, decodeVars>>

vars == <<applyVars, discoverVars, decodeVars, controlVars>>

None == "None"

inputVars == <<dryRun, failFast, name2ip, precheckOpt, host, islands, onchange>>

-----------------------------------------------------------------------------
(* Helpers on sequences                                                    *)

Range(s) == {s[i] : i \in 1..Len(s)}

\* list.index(x): the first position of x in s, 0 when absent
IndexOf(s, x) ==
    IF x \in Range(s) THEN CHOOSE i \in 1..Len(s) : s[i] = x /\ \A j \in 1..(i - 1) : s[j] # x
    ELSE 0

SeqsUpTo(S, lo, hi) == UNION {[1..n -> S] : n \in lo..hi}

-----------------------------------------------------------------------------
(* Control adapters, main.py 140-235                                       *)

\* str.lower() on the values the model uses
Lower(v) == CASE v = "T" -> "t" [] v = "Y" -> "y" [] OTHER -> v

\* Control.read
Control_read(bc) == bc.value

\* Control.write
Control_write(bc, value) == [ok |-> TRUE, bc |-> [bc EXCEPT !.value = value]]

\* Control.changed
Control_changed(bc, newValue) == Control_read(bc) # newValue

\* Control.needPost
Control_needPost(bc) == FALSE

\* HiddenControl.write: writes are ignored
HiddenControl_write(bc, value) == [ok |-> TRUE, bc |-> bc]

\* HiddenControl.changed
HiddenControl_changed(bc, newValue) == FALSE

\* CheckBox._toBool
CheckBox_toBool(value) == Lower(value) \in {"1", "t", "y"}

\* CheckBox.read: bool(browserControl.value)
CheckBox_read(bc) == (bc.value = TRUE)

\* CheckBox.write
CheckBox_write(bc, value) == [ok |-> TRUE, bc |-> [bc EXCEPT !.value = CheckBox_toBool(value)]]

\* CheckBox.changed
CheckBox_changed(bc, newValue) == CheckBox_read(bc) # CheckBox_toBool(newValue)

\* browserControl.displayValue of a single select: the label of the selected option
displayValue(bc) == <<bc.displayOptions[IndexOf(bc.options, bc.value[1])]>>

\* Combo.read
Combo_read(bc) == bc.value[1]

\* Combo.write: by option value first, then by display label, else ValueError
Combo_write(bc, value) ==
    IF value \in Range(bc.options)
    THEN [ok |-> TRUE, bc |-> [bc EXCEPT !.value = <<value>>]]
    ELSE IF value \in Range(bc.displayOptions)
    THEN [ok |-> TRUE,
          bc |-> [bc EXCEPT !.value = <<bc.options[IndexOf(bc.displayOptions, value)]>>]]
    ELSE [ok |-> FALSE, bc |-> bc]

\* Combo.changed: by display label when the value is a label, else by option value
Combo_changed(bc, newValue) ==
    IF newValue \in Range(bc.displayOptions)
    THEN displayValue(bc)[1] # newValue
    ELSE Combo_read(bc) # newValue

\* Combo.needPost: "onchange" in the attributes of the page's <select>
Combo_needPost(bc) == onchange

\* Password.changed
Password_changed(bc, newValue) == TRUE

\* CTRL_MAPPING: control type -> adapter class, "KeyError" for any other type
CTRL_MAPPING(type) ==
    CASE type \in {"text", "search", "number", "textarea"} -> "TextBox"
      [] type = "password" -> "Password"
      [] type = "select" -> "Combo"
      [] type = "checkbox" -> "CheckBox"
      [] type = "hidden" -> "HiddenControl"
      [] OTHER -> "KeyError"

\* control.read() of the adapter class
read(class, bc) ==
    CASE class = "CheckBox" -> CheckBox_read(bc)
      [] class = "Combo" -> Combo_read(bc)
      [] OTHER -> Control_read(bc)

\* control.changed(newValue) of the adapter class
Changed(class, bc, newValue) ==
    CASE class = "CheckBox" -> CheckBox_changed(bc, newValue)
      [] class = "Combo" -> Combo_changed(bc, newValue)
      [] class = "Password" -> Password_changed(bc, newValue)
      [] class = "HiddenControl" -> HiddenControl_changed(bc, newValue)
      [] OTHER -> Control_changed(bc, newValue)

\* control.write(value) of the adapter class
write(class, bc, value) ==
    CASE class = "CheckBox" -> CheckBox_write(bc, value)
      [] class = "Combo" -> Combo_write(bc, value)
      [] class = "HiddenControl" -> HiddenControl_write(bc, value)
      [] OTHER -> Control_write(bc, value)

\* control.needPost() of the adapter class
needPost(class, bc) ==
    IF class = "Combo" THEN Combo_needPost(bc) ELSE Control_needPost(bc)

-----------------------------------------------------------------------------
(* The session: forms, controls and the devices behind them                *)

\* the form every page of every device serves before the run
Form0 ==
    [t |-> [type |-> "text", value |-> "a"],
     c |-> [type |-> "checkbox", value |-> FALSE],
     s |-> [type |-> "select", value |-> <<"a">>,
            options |-> <<"a", "b">>, displayOptions |-> <<"Alpha", "Beta">>],
     p |-> [type |-> "password", value |-> ""],
     h |-> [type |-> "hidden", value |-> "x"],
     b |-> [type |-> "submit", value |-> "Submit"]]

\* str.startswith / str.endswith on one token
startswith(text, tok) == Len(text) > 0 /\ text[1] = tok
endswith(text, tok) == Len(text) > 0 /\ text[Len(text)] = tok

\* whether form.getControl(name=name) finds a control (LookupError otherwise)
hasControl(f, name) == Len(name) = 1 /\ name[1] \in DOMAIN f

\* form.getControl(name=name), for a name that hasControl
getControl(f, name) == f[name[1]]

\* browser.getForm(): the form of the page the device serves
getForm(srv, addr, url) == srv[addr][url]

\* self.name2ip.get(unit, unit)
Resolve(unit) == IF unit \in DOMAIN name2ip THEN name2ip[unit] ELSE unit

CurUnit == islands[isl].units[uidx]
CurAddr == Resolve(CurUnit)
CurPage == islands[isl].urls[pidx]

\* one entry of the trace: what was done, where, and with what
Event(ev, row, ok, data) ==
    [ev |-> ev, isl |-> isl, unit |-> uidx, page |-> pidx, row |-> row,
     ok |-> ok, data |-> data]

-----------------------------------------------------------------------------
(* Processor, main.py 238-377.  The walk of one page works on a record     *)
(* st = [form, changed, server, trace, exc] and returns it updated.        *)

SUBMIT == <<"!", "submit">>
SUBMIT_IF_CHANGED == <<"!", "submit", "?">>

\* mutant of _submitForm: the dry-run test is lost
_submitFormReal(st, row, quota) ==
    LET posted == [st.server EXCEPT ![CurAddr][CurPage.url] = st.form]
    IN [st EXCEPT !.server = posted,
                  !.trace = Append(@, Event("submit", row, TRUE, None)),
                  !.form = getForm(posted, CurAddr, CurPage.url)]

\* Processor._submitForm, lines 340-354.  quota: the device answers with the
\* flash-write-quota marker and keeps its old values.
_submitForm(st, row, quota) ==
    IF dryRun
    THEN [st EXCEPT !.trace = Append(@, Event("notsubmitted", row, TRUE, None))]
    ELSE LET posted == IF quota THEN st.server
                       ELSE [st.server EXCEPT ![CurAddr][CurPage.url] = st.form]
             logged == IF quota
                       THEN <<Event("submit", row, TRUE, None), Event("quota", row, FALSE, None)>>
                       ELSE <<Event("submit", row, TRUE, None)>>
         IN [st EXCEPT !.server = posted,
                       !.trace = @ \o logged,
                       !.form = getForm(posted, CurAddr, CurPage.url)]

\* mutant of submitIfChanged: the changed flag is not reset
submitIfChangedKeep(st, row, quota) ==
    IF st.changed THEN _submitForm(st, row, quota) ELSE st

\* processUnit lines 285-289: the `!submit?` row
submitIfChanged(st, row, quota) ==
    IF st.changed
    THEN [_submitForm(st, row, quota) EXCEPT !.changed = FALSE]
    ELSE st

\* mutant of clickButton: a missing button is always forgiven
clickButtonForgiving(st, control, row) ==
    LET name0 == Tail(control)
        name == IF endswith(name0, "?") THEN SubSeq(name0, 1, Len(name0) - 1) ELSE name0
    IN IF ~hasControl(st.form, name) THEN st
       ELSE [st EXCEPT !.trace = Append(@, Event("notclicked", row, TRUE, name))]

\* processUnit lines 293-317: a button directive `!name` or `!name?`
clickButton(st, control, row) ==
    LET name0 == Tail(control)
        forgiving == endswith(name0, "?")
        name == IF forgiving THEN SubSeq(name0, 1, Len(name0) - 1) ELSE name0
    IN IF ~hasControl(st.form, name)
       THEN IF forgiving THEN st ELSE [st EXCEPT !.exc = "LookupError"]
       ELSE IF dryRun
       THEN [st EXCEPT !.trace = Append(@, Event("notclicked", row, TRUE, name))]
       ELSE IF getControl(st.form, name).type # "submit"
       THEN [st EXCEPT !.exc = "AttributeError"]
       ELSE LET posted == [st.server EXCEPT ![CurAddr][CurPage.url] = st.form]
            IN [st EXCEPT !.server = posted,
                          !.trace = Append(@, Event("click", row, TRUE, name)),
                          !.form = getForm(posted, CurAddr, CurPage.url)]

\* mutant of setControl: a write does not raise the changed flag
setControlNoFlag(st, r, row, quota) ==
    IF ~hasControl(st.form, r.control)
    THEN [st EXCEPT !.exc = "LookupError"]
    ELSE LET bc == getControl(st.form, r.control)
             class == CTRL_MAPPING(bc.type)
             seen == [ctl |-> r.control[1], class |-> class, bc |-> bc, value |-> r.value]
         IN IF class = "KeyError"
            THEN [st EXCEPT !.exc = "KeyError"]
            ELSE LET s1 == [st EXCEPT !.trace = Append(@, Event("control", row, TRUE, seen))]
                 IN IF ~Changed(class, bc, r.value)
                    THEN s1
                    ELSE LET w == write(class, bc, r.value)
                         IN IF ~w.ok
                            THEN [s1 EXCEPT !.exc = "ValueError"]
                            ELSE LET s2 == [s1 EXCEPT
                                       !.form = [@ EXCEPT ![r.control[1]] = w.bc],
                                       !.trace = @ \o <<Event("write", row, TRUE, seen),
                                                        Event("changed", row, TRUE, seen)>>]
                                 IN IF needPost(class, w.bc)
                                    THEN _submitForm(s2, row, quota)
                                    ELSE s2

\* processUnit lines 319-334: an ordinary control row
setControl(st, r, row, quota) ==
    IF ~hasControl(st.form, r.control)
    THEN [st EXCEPT !.exc = "LookupError"]
    ELSE LET bc == getControl(st.form, r.control)
             class == CTRL_MAPPING(bc.type)
             seen == [ctl |-> r.control[1], class |-> class, bc |-> bc, value |-> r.value]
         IN IF class = "KeyError"
            THEN [st EXCEPT !.exc = "KeyError"]
            ELSE LET s1 == [st EXCEPT !.trace = Append(@, Event("control", row, TRUE, seen))]
                 IN IF ~Changed(class, bc, r.value)
                    THEN s1
                    ELSE LET w == write(class, bc, r.value)
                         IN IF ~w.ok
                            THEN [s1 EXCEPT !.exc = "ValueError"]
                            ELSE LET s2 == [s1 EXCEPT
                                       !.form = [@ EXCEPT ![r.control[1]] = w.bc],
                                       !.changed = TRUE,
                                       !.trace = @ \o <<Event("write", row, TRUE, seen),
                                                        Event("changed", row, TRUE, seen)>>]
                                 IN IF needPost(class, w.bc)
                                    THEN _submitForm(s2, row, quota)
                                    ELSE s2

\* processUnit lines 284-334: one iteration of `for row in rows`
processRow(st, r, row, quota) ==
    IF r.control = SUBMIT_IF_CHANGED THEN submitIfChanged(st, row, quota)
    ELSE IF r.control = SUBMIT THEN _submitForm(st, row, quota)
    ELSE IF startswith(r.control, "!") THEN clickButton(st, r.control, row)
    ELSE setControl(st, r, row, quota)

\* mutant of endOfPage: the form is submitted whether or not anything changed
endOfPageAlways(st, row, quota) == _submitForm(st, row, quota)

\* processUnit lines 335-338: after the rows of a page
endOfPage(st, row, quota) ==
    IF st.changed
    THEN _submitForm(st, row, quota)
    ELSE [st EXCEPT !.trace = Append(@, Event("nochanges", row, TRUE, None))]

-----------------------------------------------------------------------------
(* The run of `config`, main.py 427-431, as steps between two I/O calls    *)

\* the order of sorted() on the unit names of the model
Rank(u) == CASE u = "k" -> 1 [] u = "u1" -> 2 [] u = "u2" -> 3 [] OTHER -> 4

\* sorted(units)
sorted(S) ==
    CHOOSE q \in [1..Cardinality(S) -> S] :
        \A i, j \in 1..Cardinality(S) : i < j => Rank(q[i]) < Rank(q[j])

\* precheck lines 357-362: the set of filter-matching units of all islands
precheckUnits ==
    UNION {{islands[i].units[j] :
               j \in {k \in 1..Len(islands[i].units) :
                          host = None \/ islands[i].units[k] = host}} :
           i \in 1..Len(islands)}

\* _submitForm line 348: the device at the unresolved name "k" has used up its
\* daily flash writes and answers every submit with the quota marker
QuotaExceeded(addr) == addr = "k"

St == [form |-> form, changed |-> changed, server |-> server, trace |-> trace, exc |-> "none"]

\* config lines 427-431: run precheck first when asked to
Config ==
    /\ pc = "config"
    /\ IF precheckOpt
       THEN /\ pc' = "precheck"
            /\ pcUnits' = sorted(precheckUnits)
            /\ pcIdx' = 1
       ELSE /\ pc' = "island"
            /\ UNCHANGED <<pcUnits, pcIdx>>
    /\ UNCHANGED <<notApply, inputVars, server, exc, failed, isl, uidx, pidx, ridx, form,
                   changed, trace>>

\* precheck lines 366-374: open the root address of the next unit
PrecheckOpen ==
    /\ pc = "precheck"
    /\ pcIdx <= Len(pcUnits)
    /\ \E ok \in BOOLEAN :
          LET unit == Resolve(pcUnits[pcIdx])
          IN /\ trace' = Append(trace, [ev |-> "check", isl |-> 0, unit |-> pcIdx,
                                        page |-> 0, row |-> 0, ok |-> ok, data |-> unit])
             /\ failed' = IF ok THEN failed ELSE Append(failed, unit)
    /\ pcIdx' = pcIdx + 1
    /\ UNCHANGED <<notApply, inputVars, server, pc, exc, pcUnits, isl, uidx, pidx, ridx,
                   form, changed>>

\* precheck lines 376-377, then config line 431
PrecheckEnd ==
    /\ pc = "precheck"
    /\ pcIdx > Len(pcUnits)
    /\ IF failFast
       THEN pc' = "raised" /\ exc' = "SystemExit"
       ELSE pc' = "island" /\ exc' = exc
    /\ UNCHANGED <<notApply, inputVars, server, pcUnits, pcIdx, failed, isl, uidx, pidx, ridx, form,
                   changed, trace>>

\* process lines 249-250 and processIsland lines 253-256: the next unit to process
NextUnit ==
    /\ pc = "island"
    /\ IF isl > Len(islands)
       THEN pc' = "done" /\ UNCHANGED <<isl, uidx>>
       ELSE IF uidx > Len(islands[isl].units)
       THEN pc' = pc /\ isl' = isl + 1 /\ uidx' = 1
       ELSE IF host # None /\ CurUnit # host
       THEN pc' = pc /\ isl' = isl /\ uidx' = uidx + 1
       ELSE pc' = "unit" /\ UNCHANGED <<isl, uidx>>
    /\ pidx' = 0
    /\ ridx' = 0
    /\ UNCHANGED <<notApply, inputVars, server, exc, pcUnits, pcIdx, failed, form, changed, trace>>

\* mutant of OpenUnit: a root address that fails ends the walk of all units
OpenUnitStop ==
    /\ pc = "unit"
    /\ \E ok \in BOOLEAN :
          /\ trace' = Append(trace, Event("root", 0, ok, CurAddr))
          /\ IF ok
             THEN pc' = "page" /\ pidx' = 1 /\ UNCHANGED <<exc, uidx>>
             ELSE IF failFast
             THEN pc' = "raised" /\ exc' = "URLError" /\ UNCHANGED <<pidx, uidx>>
             ELSE pc' = "done" /\ UNCHANGED <<exc, pidx, uidx>>
    /\ UNCHANGED <<notApply, inputVars, server, pcUnits, pcIdx, failed, isl, ridx, form, changed>>

\* processUnit lines 259-270: open the unit's root address
OpenUnit ==
    /\ pc = "unit"
    /\ \E ok \in BOOLEAN :
          /\ trace' = Append(trace, Event("root", 0, ok, CurAddr))
          /\ IF ok
             THEN pc' = "page" /\ pidx' = 1 /\ UNCHANGED <<exc, uidx>>
             ELSE IF failFast
             THEN pc' = "raised" /\ exc' = "URLError" /\ UNCHANGED <<pidx, uidx>>
             ELSE pc' = "island" /\ uidx' = uidx + 1 /\ UNCHANGED <<exc, pidx>>
    /\ UNCHANGED <<notApply, inputVars, server, pcUnits, pcIdx, failed, isl, ridx, form, changed>>

\* processUnit line 272: the pages of the island are exhausted, the unit is done
UnitDone ==
    /\ pc = "page"
    /\ pidx > Len(islands[isl].urls)
    /\ pc' = "island"
    /\ uidx' = uidx + 1
    /\ UNCHANGED <<notApply, inputVars, server, exc, pcUnits, pcIdx, failed, isl, pidx, ridx, form,
                   changed, trace>>

\* mutant of OpenPage: a page that fails skips the unit even with failFast
OpenPageSkip ==
    /\ pc = "page"
    /\ pidx <= Len(islands[isl].urls)
    /\ \E ok \in BOOLEAN :
          IF ok
          THEN /\ form' = getForm(server, CurAddr, CurPage.url)
               /\ trace' = Append(trace, Event("page", 0, ok, form'))
               /\ changed' = FALSE
               /\ ridx' = 1
               /\ pc' = "row"
               /\ UNCHANGED <<exc, uidx>>
          ELSE /\ trace' = Append(trace, Event("page", 0, ok, None))
               /\ pc' = "island" /\ uidx' = uidx + 1 /\ UNCHANGED exc
               /\ UNCHANGED <<form, changed, ridx>>
    /\ UNCHANGED <<notApply, inputVars, server, pcUnits, pcIdx, failed, isl, pidx>>

\* processUnit lines 273-283: open the next page and fetch its form
OpenPage ==
    /\ pc = "page"
    /\ pidx <= Len(islands[isl].urls)
    /\ \E ok \in BOOLEAN :
          IF ok
          THEN /\ form' = getForm(server, CurAddr, CurPage.url)
               /\ trace' = Append(trace, Event("page", 0, ok, form'))
               /\ changed' = FALSE
               /\ ridx' = 1
               /\ pc' = "row"
               /\ UNCHANGED <<exc, uidx>>
          ELSE /\ trace' = Append(trace, Event("page", 0, ok, None))
               /\ IF failFast
                  THEN pc' = "raised" /\ exc' = "URLError" /\ UNCHANGED uidx
                  ELSE pc' = "island" /\ uidx' = uidx + 1 /\ UNCHANGED exc
               /\ UNCHANGED <<form, changed, ridx>>
    /\ UNCHANGED <<notApply, inputVars, server, pcUnits, pcIdx, failed, isl, pidx>>

\* the state after a step of the page walk that returned st
AfterStep(st) ==
    /\ form' = st.form
    /\ changed' = st.changed
    /\ server' = st.server
    /\ trace' = st.trace
    /\ exc' = st.exc

\* processUnit lines 284-334: the next row of the page
ProcessRow ==
    /\ pc = "row"
    /\ ridx <= Len(CurPage.rows)
    /\ LET st == processRow(St, CurPage.rows[ridx], ridx, QuotaExceeded(CurAddr))
       IN /\ AfterStep(st)
          /\ pc' = IF st.exc = "none" THEN "row" ELSE "raised"
    /\ ridx' = ridx + 1
    /\ UNCHANGED <<notApply, inputVars, pcUnits, pcIdx, failed, isl, uidx, pidx>>

\* processUnit lines 335-338: the rows are exhausted, submit what changed
EndPage ==
    /\ pc = "row"
    /\ ridx > Len(CurPage.rows)
    /\ AfterStep(endOfPage(St, ridx, QuotaExceeded(CurAddr)))
    /\ pc' = "page"
    /\ pidx' = pidx + 1
    /\ UNCHANGED <<notApply, inputVars, pcUnits, pcIdx, failed, isl, uidx, ridx>>

NextProcess == NextUnit \/ OpenUnit \/ UnitDone \/ OpenPage \/ ProcessRow \/ EndPage

-----------------------------------------------------------------------------
(* The inputs                                                              *)

MaxIslands == 2
MaxUnits == 3
MaxRows == 3

NoAlias == [n \in {} |-> None]
Alias == [n \in {"k"} |-> "u1"]

Row(url, control, value) == [url |-> url, control |-> control, value |-> value]

Addrs == {"k", "u1"}
Urls == {"/a", "/b"}

PageA == [url |-> "/a", rows |-> <<Row("/a", <<"t">>, "b")>>]
PageB == [url |-> "/b", rows |-> <<Row("/b", <<"c">>, "1")>>]

FleetIslands ==
    {[units |-> u, urls |-> <<PageA, PageB>>] : u \in SeqsUpTo({"k", "u1"}, 1, MaxUnits)}

RECURSIVE TotalUnits(_)
TotalUnits(f) == IF f = <<>> THEN 0 ELSE Len(Head(f).units) + TotalUnits(Tail(f))

\* the fleets: up to MaxIslands islands holding up to MaxUnits units in all
Fleets == {f \in SeqsUpTo(FleetIslands, 1, MaxIslands) : TotalUnits(f) <= MaxUnits}

\* var/ holds no cache file
NoFiles == [n \in {} |-> <<>>]

\* Discovery before any run, for the specifications of the other parts
IdleDiscover ==
    /\ timeout = 1
    /\ dpc = "idle"
    /\ phase = 1
    /\ iplist = <<<<>>, <<>>>>
    /\ threads = <<<<>>, <<>>>>
    /\ joined = 0
    /\ collector = <<<<>>, <<>>>>
    /\ loaded = <<>>
    /\ units = <<>>
    /\ units1 = <<>>
    /\ files = NoFiles

\* the decoder before any call, for the specifications of the other parts
IdleDecode ==
    /\ table = <<>>
    /\ rpc = "idle"
    /\ srow = 1
    /\ scol = 1
    /\ roffset = 1
    /\ isUnits = <<>>
    /\ isData = <<>>
    /\ isUrls = <<>>
    /\ prevRow = <<>>
    /\ decoded = <<>>
    /\ rexc = "none"

\* no adapter under test, for the specifications of the other parts
IdleControl ==
    /\ adapter = [class |-> "none", bc |-> [type |-> "none", value |-> ""]]
    /\ calls = <<>>

InitRun ==
    /\ server = [a \in Addrs |-> [u \in Urls |-> Form0]]
    /\ pc = "config"
    /\ exc = "none"
    /\ pcUnits = <<>>
    /\ pcIdx = 0
    /\ failed = <<>>
    /\ isl = 1
    /\ uidx = 1
    /\ pidx = 0
    /\ ridx = 0
    /\ form = None
    /\ changed = FALSE
    /\ trace = <<>>

\* a run of `config` over a fleet, two pages per island
Init ==
    /\ dryRun = FALSE
    /\ failFast \in BOOLEAN
    /\ precheckOpt \in BOOLEAN
    /\ host \in {None, "u1"}
    /\ name2ip \in {NoAlias, Alias}
    /\ islands \in Fleets
    /\ onchange = FALSE
    /\ InitRun
    /\ IdleDiscover
    /\ IdleDecode
    /\ IdleControl

Next == Config \/ PrecheckOpen \/ PrecheckEnd \/ NextProcess

Spec == Init /\ [][Next]_vars

\* the rows a page of the page-walk specification is made of
RowSet ==
    {Row("/a", <<"t">>, "a"), Row("/a", <<"t">>, "b"), Row("/a", <<"c">>, "1"),
     Row("/a", <<"s">>, "Beta"), Row("/a", <<"s">>, "zz"), Row("/a", <<"p">>, "pw"),
     Row("/a", <<"h">>, "y"), Row("/a", SUBMIT, ""), Row("/a", SUBMIT_IF_CHANGED, ""),
     Row("/a", <<"!", "b">>, ""), Row("/a", <<"!", "nob">>, ""),
     Row("/a", <<"!", "nob", "?">>, "")}

\* one unit, a first page of any rows and a second page
InitPage ==
    /\ dryRun \in BOOLEAN
    /\ failFast = FALSE
    /\ precheckOpt = FALSE
    /\ host = None
    /\ name2ip = NoAlias
    /\ \E rows \in SeqsUpTo(RowSet, 1, MaxRows) :
          islands = <<[units |-> <<"u1">>,
                       urls |-> <<[url |-> "/a", rows |-> rows], PageB>>]>>
    /\ onchange \in BOOLEAN
    /\ InitRun
    /\ IdleDiscover
    /\ IdleDecode
    /\ IdleControl

NextPage == Config \/ NextProcess

SpecPage == InitPage /\ [][NextPage]_vars

-----------------------------------------------------------------------------
(* Reading the trace                                                       *)

\* the positions of the trace that belong to page p of unit u of island i
At(i, u, p) == {k \in 1..Len(trace) : trace[k].isl = i /\ trace[k].unit = u /\ trace[k].page = p}

\* the page visits the walk has finished: the end-of-page step has been taken
Ended ==
    {key \in (1..Len(islands)) \X (1..MaxUnits) \X (1..2) :
        \E k \in At(key[1], key[2], key[3]) :
            /\ trace[k].ev \in {"submit", "notsubmitted", "nochanges"}
            /\ trace[k].row = Len(islands[key[1]].urls[key[3]].rows) + 1}

RowsOf(key) == islands[key[1]].urls[key[3]].rows

\* the form the visit loaded from the device
Loaded(key) ==
    trace[CHOOSE k \in At(key[1], key[2], key[3]) : trace[k].ev = "page"].data

\* the positions of the events ev of a page visit
EventsOf(key, ev) == {k \in At(key[1], key[2], key[3]) : trace[k].ev = ev}

Ordinary(r) == ~startswith(r.control, "!")

\* an ordinary row's desired value differs from the value of its control in form f
Differs(f, r) ==
    LET bc == getControl(f, r.control)
    IN Changed(CTRL_MAPPING(bc.type), bc, r.value)

\* an ordinary row's control needs resubmit
Needs(f, r) ==
    LET bc == getControl(f, r.control)
    IN needPost(CTRL_MAPPING(bc.type), bc)

DistinctControls(rows) ==
    \A m, n \in 1..Len(rows) : m # n => rows[m].control # rows[n].control

-----------------------------------------------------------------------------
\* C1: in a non-dry-run apply, a finished page whose rows are all ordinary
\* controls none of which needs resubmit has been submitted exactly once if
\* the desired value of at least one row differs from the value the device
\* served, and never if none differs; when the rows name distinct controls
\* the rows written are exactly the differing ones.
C1_SubmitOnceIffDiffers ==
    ~dryRun =>
        \A key \in Ended :
            LET rows == RowsOf(key)
                f == Loaded(key)
                differing == {n \in 1..Len(rows) : Differs(f, rows[n])}
            IN (\A n \in 1..Len(rows) : Ordinary(rows[n]) /\ ~Needs(f, rows[n])) =>
                  /\ Cardinality(EventsOf(key, "submit")) = IF differing # {} THEN 1 ELSE 0
                  /\ DistinctControls(rows) =>
                        {trace[k].row : k \in EventsOf(key, "write")} = differing

\* C1 witness: the page of one unchanged TextBox row and one differing
\* CheckBox row is finished, submitted once, and only the CheckBox was written
C1_Witness ==
    /\ ~dryRun
    /\ <<1, 1, 1>> \in Ended
    /\ RowsOf(<<1, 1, 1>>) = <<Row("/a", <<"t">>, "a"), Row("/a", <<"c">>, "1")>>
    /\ Cardinality(EventsOf(<<1, 1, 1>>, "submit")) = 1
    /\ {trace[k].data.ctl : k \in EventsOf(<<1, 1, 1>>, "write")} = {"c"}

\* C2: with dry-run enabled no form is ever submitted and no button is ever
\* clicked, the devices keep their state, and every ordinary row whose
\* desired value differs from the value of its control is reported as changed
\* (unless writing it is the fatal Combo value fault); a row whose control no
\* earlier row of the page wrote sees the value the device holds.
C2_DryRunNeverSubmits ==
    dryRun =>
        /\ \A k \in 1..Len(trace) : trace[k].ev \notin {"submit", "click"}
        /\ server = [a \in Addrs |-> [u \in Urls |-> Form0]]
        /\ \A k \in 1..Len(trace) :
              trace[k].ev = "control" =>
                 LET e == trace[k]
                     key == <<e.isl, e.unit, e.page>>
                 IN /\ Changed(e.data.class, e.data.bc, e.data.value) =>
                          \/ k = Len(trace) /\ exc = "ValueError"
                          \/ /\ k + 2 <= Len(trace)
                             /\ trace[k + 2].ev = "changed"
                             /\ trace[k + 2].row = e.row
                             /\ trace[k + 2].data.ctl = e.data.ctl
                    /\ (\A j \in EventsOf(key, "write") :
                           j < k => trace[j].data.ctl # e.data.ctl) =>
                          e.data.bc = server[Resolve(islands[e.isl].units[e.unit])]
                                            [islands[e.isl].urls[e.page].url][e.data.ctl]

\* C2 witness: a finished dry run that skipped a submission and a click and
\* reported a changed row
C2_Witness ==
    /\ dryRun
    /\ pc = "done"
    /\ \E k \in 1..Len(trace) : trace[k].ev = "notsubmitted"
    /\ \E k \in 1..Len(trace) : trace[k].ev = "notclicked"
    /\ \E k \in 1..Len(trace) : trace[k].ev = "changed"

\* C3: in a non-dry-run apply, a finished page made only of `!submit?` rows
\* has not been submitted; a finished page made of one changed control that
\* needs no resubmit followed only by `!submit?` rows has been submitted
\* exactly once, by the first `!submit?` row.
C3_SubmitIfChanged ==
    ~dryRun =>
        \A key \in Ended :
            LET rows == RowsOf(key)
                f == Loaded(key)
                submits == EventsOf(key, "submit")
            IN /\ (\A n \in 1..Len(rows) : rows[n].control = SUBMIT_IF_CHANGED) =>
                      submits = {}
               /\ ( /\ Len(rows) >= 2
                    /\ Ordinary(rows[1]) /\ Differs(f, rows[1]) /\ ~Needs(f, rows[1])
                    /\ \A n \in 2..Len(rows) : rows[n].control = SUBMIT_IF_CHANGED ) =>
                      /\ Cardinality(submits) = 1
                      /\ \A k \in submits : trace[k].row = 2

\* C3 witness: the page <<t = b, !submit?>> is finished and was submitted once,
\* by its `!submit?` row
C3_Witness ==
    /\ ~dryRun
    /\ <<1, 1, 1>> \in Ended
    /\ RowsOf(<<1, 1, 1>>) = <<Row("/a", <<"t">>, "b"), Row("/a", SUBMIT_IF_CHANGED, "")>>
    /\ {trace[k].row : k \in EventsOf(<<1, 1, 1>>, "submit")} = {2}

-----------------------------------------------------------------------------
\* the units of the islands that pass the --host filter, by island and position
Matching ==
    {u \in (1..Len(islands)) \X (1..MaxUnits) :
        /\ u[2] <= Len(islands[u[1]].units)
        /\ (host = None \/ islands[u[1]].units[u[2]] = host)}

\* a connectivity failure of the apply phase
OpenFailed(k) == trace[k].ev \in {"root", "page"} /\ ~trace[k].ok

Attempted(u) ==
    \E k \in 1..Len(trace) : trace[k].ev = "root" /\ trace[k].isl = u[1] /\ trace[k].unit = u[2]

\* C4: with failFast unset a connectivity failure never ends the run; after a
\* unit's root address or page failed to open nothing more is done on that
\* unit; and every filter-matching unit the walk has passed, of every island,
\* has had its root address opened, whatever failed before it.
C4_FailureSkipsOnlyThatUnit ==
    ~failFast =>
        /\ pc # "raised"
        /\ \A k \in 1..Len(trace) :
              OpenFailed(k) =>
                 \A j \in (k + 1)..Len(trace) :
                    ~(trace[j].isl = trace[k].isl /\ trace[j].unit = trace[k].unit)
        /\ \A u \in Matching :
              (pc = "done" \/ u[1] < isl \/ (u[1] = isl /\ u[2] < uidx)) => Attempted(u)

\* C4 witness: a finished run in which a unit failed, and a unit after it was
\* opened and submitted
C4_Witness ==
    /\ ~failFast
    /\ pc = "done"
    /\ \E k \in 1..Len(trace) :
          /\ OpenFailed(k)
          /\ \E j \in (k + 1)..Len(trace) : trace[j].ev = "submit"

\* C5: with failFast set, a connectivity failure of the apply phase is the
\* last thing the run does: the run has ended with the connectivity error and
\* nothing is opened, written or submitted after it.
C5_FailFastAborts ==
    failFast =>
        \A k \in 1..Len(trace) :
            OpenFailed(k) => k = Len(trace) /\ pc = "raised" /\ exc = "URLError"

\* C5 witness: the run was aborted by a failure after a submission, with a
\* filter-matching unit still not attempted
C5_Witness ==
    /\ failFast
    /\ pc = "raised"
    /\ exc = "URLError"
    /\ \E k \in 1..Len(trace) : trace[k].ev = "submit"
    /\ \E u \in Matching : ~Attempted(u)

\* the root addresses precheck opened, in order
Checked == SelectSeq(trace, LAMBDA e : e.ev = "check")

\* precheck opens every distinct filter-matching unit once, in sorted order,
\* past failures, and `failed` lists the ones that failed
PrecheckOpensAll ==
    (precheckOpt /\ pc \notin {"config", "precheck"}) =>
        /\ [k \in 1..Len(Checked) |-> Checked[k].data]
              = [k \in 1..Cardinality(precheckUnits) |-> Resolve(sorted(precheckUnits)[k])]
        /\ failed = [k \in 1..Len(SelectSeq(Checked, LAMBDA e : ~e.ok)) |->
                        SelectSeq(Checked, LAMBDA e : ~e.ok)[k].data]

\* C6: precheck opens the root address of every distinct filter-matching unit
\* in sorted order without stopping at a failure and records the failures;
\* with failFast set it aborts the run only if at least one unit failed.
C6_PrecheckAbortsOnlyOnFailure ==
    /\ PrecheckOpensAll
    /\ exc = "SystemExit" => failed # <<>>

-----------------------------------------------------------------------------
(* Discovery, main.py 434-518                                              *)

\* str.split(".") of a text whose parts are single tokens
Split(text) == SelectSeq(text, LAMBDA tok : tok # ".")

\* ".".join(parts)
RECURSIVE JoinDots(_)
JoinDots(parts) ==
    IF Len(parts) = 0 THEN <<>>
    ELSE IF Len(parts) = 1 THEN <<parts[1]>>
    ELSE <<parts[1], ".">> \o JoinDots(Tail(parts))

\* str.replace(".", "_")
Replace(text) == [i \in 1..Len(text) |-> IF text[i] = "." THEN "_" ELSE text[i]]

\* the status documents: name and ip hold the "Unit Name" and "IP Address"
\* fields as <<text>>, or <<>> when the field is absent
Doc(name, ip, nodes) == [name |-> name, ip |-> ip, nodes |-> nodes]

RaisedUnbound == [ok |-> FALSE, name |-> <<>>]

\* Discovery._getUnitName, lines 435-446: a missing field leaves its local
\* unbound, and reading an unbound local raises UnboundLocalError
_getUnitName(data) ==
    IF data.name = <<>>
    THEN RaisedUnbound
    ELSE IF data.name[1] # <<>>
    THEN [ok |-> TRUE, name |-> Replace(data.name[1])]
    ELSE IF data.ip = <<>>
    THEN RaisedUnbound
    ELSE [ok |-> TRUE, name |-> Replace(data.ip[1])]

\* a dict as the sequence of its <<key, value>> items in insertion order
Keys(d) == {d[i][1] : i \in 1..Len(d)}
Values(d) == [i \in 1..Len(d) |-> d[i][2]]

\* d[key] = value
DictSet(d, key, value) ==
    IF key \in Keys(d)
    THEN [i \in 1..Len(d) |-> IF d[i][1] = key THEN <<key, value>> ELSE d[i]]
    ELSE Append(d, <<key, value>>)

\* d.update(e)
RECURSIVE DictUpdate(_, _)
DictUpdate(d, e) ==
    IF e = <<>> THEN d ELSE DictUpdate(DictSet(d, e[1][1], e[1][2]), Tail(e))

\* discoverUnits lines 499-502: the candidate addresses of the /24
Candidates(iprange, last) ==
    LET parts == Split(iprange)
        base == JoinDots(SubSeq(parts, 1, 3))
    IN [n \in 1..last |-> base \o <<".", ToString(n)>>]

\* the addresses of the nodes of one unit that are not keys of `known`
RECURSIVE NodeIps(_, _)
NodeIps(nodes, known) ==
    IF nodes = <<>> THEN <<>>
    ELSE (IF Head(nodes).name \notin Keys(known) THEN <<Head(nodes).ip>> ELSE <<>>)
         \o NodeIps(Tail(nodes), known)

RECURSIVE NeighboursOf(_, _)
NeighboursOf(docs, known) ==
    IF docs = <<>> THEN <<>>
    ELSE NodeIps(Head(docs).nodes, known) \o NeighboursOf(Tail(docs), known)

\* mutant of Neighbours: the names already found are not left out
NeighboursAll(found) == NeighboursOf(Values(found), <<>>)

\* discoverUnits lines 507-511: the addresses Phase 2 probes
Neighbours(found) == NeighboursOf(Values(found), found)

\* the address x.x.x.n of the scanned /24
Host(n) == <<"192", ".", "168", ".", "0", ".", ToString(n)>>

\* the IPRANGE argument of `discover`
IpRange == <<"192", ".", "168", ".", "0", ".", "77">>

\* the scanned host addresses are .1 to .LastHost (.253 in the code, line 502)
LastHost == 2
MaxTimeout == 2

\* the default of discoverUnitsInThread's timeout parameter, line 482
DefaultTimeout == 1

\* line 513: timeout * 3
TimeoutFactor == 3

NameA == <<"A">>
NameB == <<"B">>
NameC == <<"C", ".", "1">>

\* the status documents a device at address ip may answer with
DocSet(ip) ==
    {Doc(<<NameA>>, <<ip>>, <<[name |-> NameB, ip |-> Host(2)]>>),
     Doc(<<NameB>>, <<ip>>, <<[name |-> NameA, ip |-> Host(1)]>>),
     Doc(<< <<>> >>, <<ip>>, <<[name |-> NameB, ip |-> Host(2)]>>),
     Doc(<<>>, <<ip>>, <<>>),
     Doc(<<NameC>>, <<>>, <<[name |-> NameC, ip |-> ip]>>)}

\* what a probe of ip may get: <<>> for a request error, a non-200 status or a
\* body that is not JSON, else <<document>>
Responses(ip) == {<<>>} \cup {<<d>> : d \in DocSet(ip)}

\* the timeout discoverUnits hands to the probes of a phase, lines 503 and 513
PhaseTimeout(ph) == IF ph = 1 THEN DefaultTimeout ELSE timeout * TimeoutFactor

Finished(thr) == thr.pc \in {"done", "died"}

\* discoverUnits lines 498-503: build the candidate list, enter Phase 1
DiscoverStart ==
    /\ dpc = "start"
    /\ iplist' = [iplist EXCEPT ![1] = Candidates(IpRange, LastHost)]
    /\ dpc' = "spawn"
    /\ UNCHANGED <<notDiscover, timeout, phase, threads, joined, collector, loaded, units,
                   units1, files>>

\* discoverUnitsInThread lines 486-489: create and start the next thread
Spawn ==
    /\ dpc = "spawn"
    /\ LET n == Len(threads[phase]) + 1
           thr == [ip |-> iplist[phase][n], timeout |-> PhaseTimeout(phase),
                   pc |-> "request", data |-> <<>>]
       IN /\ threads' = [threads EXCEPT ![phase] = Append(@, thr)]
          /\ dpc' = IF n = Len(iplist[phase]) THEN "join" ELSE "spawn"
    /\ joined' = 0
    /\ UNCHANGED <<notDiscover, timeout, phase, iplist, collector, loaded, units, units1,
                   files>>

\* mutant of Join: the thread is not waited for
JoinNoWait ==
    /\ dpc = "join"
    /\ joined' = joined + 1
    /\ dpc' = IF joined' = Len(threads[phase]) THEN "drain" ELSE "join"
    /\ UNCHANGED <<notDiscover, timeout, phase, iplist, threads, collector, loaded, units,
                   units1, files>>

\* discoverUnitsInThread lines 491-492: thr.join() returns once the thread ended
Join ==
    /\ dpc = "join"
    /\ Finished(threads[phase][joined + 1])
    /\ joined' = joined + 1
    /\ dpc' = IF joined' = Len(threads[phase]) THEN "drain" ELSE "join"
    /\ UNCHANGED <<notDiscover, timeout, phase, iplist, threads, collector, loaded, units,
                   units1, files>>

\* _loadCollector lines 473-477: take the next document off the queue
Drain ==
    /\ dpc = "drain"
    /\ collector[phase] # <<>>
    /\ LET unit == Head(collector[phase])
           unitName == _getUnitName(unit)
       IN IF unitName.ok
          THEN /\ loaded' = DictSet(loaded, unitName.name, unit)
               /\ dpc' = dpc
          ELSE /\ loaded' = loaded
               /\ dpc' = "crashed"
    /\ collector' = [collector EXCEPT ![phase] = Tail(@)]
    /\ UNCHANGED <<notDiscover, timeout, phase, iplist, threads, joined, units, units1, files>>

\* _loadCollector lines 478-480 and discoverUnits lines 503-513: Phase 1 is
\* drained, collect the neighbours and enter Phase 2
EndPhase1 ==
    /\ dpc = "drain"
    /\ phase = 1
    /\ collector[1] = <<>>
    /\ units' = loaded
    /\ units1' = loaded
    /\ iplist' = [iplist EXCEPT ![2] = Neighbours(loaded)]
    /\ phase' = 2
    /\ loaded' = <<>>
    /\ joined' = 0
    /\ dpc' = IF iplist'[2] = <<>> THEN "drain" ELSE "spawn"
    /\ UNCHANGED <<notDiscover, timeout, threads, collector, files>>

\* _loadCollector lines 478-480 and discoverUnits lines 513-518: Phase 2 is
\* drained, merge and return
Return ==
    /\ dpc = "drain"
    /\ phase = 2
    /\ collector[2] = <<>>
    /\ units' = IF loaded # <<>> THEN DictUpdate(units, loaded) ELSE units
    /\ dpc' = "returned"
    /\ UNCHANGED <<notDiscover, timeout, phase, iplist, threads, joined, collector, loaded,
                   units1, files>>

\* mutant of RequestOf: a put replaces what the collector holds
RequestOfOverwrite(ph, i) ==
    /\ threads[ph][i].pc = "request"
    /\ \E resp \in Responses(threads[ph][i].ip) :
          IF resp = <<>>
          THEN /\ threads' = [threads EXCEPT ![ph][i].pc = "done"]
               /\ collector' = collector
          ELSE /\ threads' = [threads EXCEPT ![ph][i] = [@ EXCEPT !.pc = "name", !.data = resp]]
               /\ collector' = [collector EXCEPT ![ph] = <<resp[1]>>]
    /\ UNCHANGED <<notDiscover, timeout, dpc, phase, iplist, joined, loaded, units, units1,
                   files>>

\* worker lines 449-465: the request and what came back; a document that
\* decodes is put into the collector
RequestOf(ph, i) ==
    /\ threads[ph][i].pc = "request"
    /\ \E resp \in Responses(threads[ph][i].ip) :
          IF resp = <<>>
          THEN /\ threads' = [threads EXCEPT ![ph][i].pc = "done"]
               /\ collector' = collector
          ELSE /\ threads' = [threads EXCEPT ![ph][i] = [@ EXCEPT !.pc = "name", !.data = resp]]
               /\ collector' = [collector EXCEPT ![ph] = Append(@, resp[1])]
    /\ UNCHANGED <<notDiscover, timeout, dpc, phase, iplist, joined, loaded, units, units1,
                   files>>

\* worker lines 466-469: derive the unit name and write the cache file; an
\* exception ends the thread
PersistOf(ph, i) ==
    /\ threads[ph][i].pc = "name"
    /\ LET data == threads[ph][i].data[1]
           unitName == _getUnitName(data)
       IN IF unitName.ok
          THEN /\ files' = [n \in DOMAIN files \cup {unitName.name} |->
                              IF n = unitName.name THEN data ELSE files[n]]
               /\ threads' = [threads EXCEPT ![ph][i].pc = "done"]
          ELSE /\ files' = files
               /\ threads' = [threads EXCEPT ![ph][i].pc = "died"]
    /\ UNCHANGED <<notDiscover, timeout, dpc, phase, iplist, joined, collector, loaded, units,
                   units1>>

\* a step of any of the started threads
Request == \E ph \in 1..2 : \E i \in 1..Len(threads[ph]) : RequestOf(ph, i)
Persist == \E ph \in 1..2 : \E i \in 1..Len(threads[ph]) : PersistOf(ph, i)

\* the Processor before any run, for the specifications of the other parts
IdleApply ==
    /\ dryRun = FALSE
    /\ failFast = FALSE
    /\ precheckOpt = FALSE
    /\ host = None
    /\ name2ip = NoAlias
    /\ islands = <<>>
    /\ onchange = FALSE
    /\ InitRun

InitDiscover ==
    /\ IdleApply
    /\ IdleDecode
    /\ IdleControl
    /\ timeout \in {DefaultTimeout, MaxTimeout}
    /\ dpc = "start"
    /\ phase = 1
    /\ iplist = <<<<>>, <<>>>>
    /\ threads = <<<<>>, <<>>>>
    /\ joined = 0
    /\ collector = <<<<>>, <<>>>>
    /\ loaded = <<>>
    /\ units = <<>>
    /\ units1 = <<>>
    /\ files = NoFiles

NextDiscover ==
    DiscoverStart \/ Spawn \/ Join \/ Drain \/ EndPhase1 \/ Return \/ Request \/ Persist

SpecDiscover == InitDiscover /\ [][NextDiscover]_vars

-----------------------------------------------------------------------------
(* Discovery: the claims                                                   *)

\* the probes of phase ph that got a status document
Answered(ph) == {i \in 1..Len(threads[ph]) : threads[ph][i].data # <<>>}

\* C7: the two phases are strictly sequential under every interleaving: a
\* Phase-2 probe exists only when every Phase-1 address has a probe, all of
\* them have finished and the Phase-1 collector is drained; discoverUnits has
\* returned only when every Phase-2 address has a probe and all have finished.
C7_PhasesSequential ==
    /\ threads[2] # <<>> =>
          /\ Len(threads[1]) = Len(iplist[1])
          /\ \A i \in 1..Len(threads[1]) : Finished(threads[1][i])
          /\ collector[1] = <<>>
    /\ dpc = "returned" =>
          /\ Len(threads[1]) = LastHost
          /\ Len(threads[2]) = Len(iplist[2])
          /\ \A ph \in 1..2 : \A i \in 1..Len(threads[ph]) : Finished(threads[ph][i])

\* C7 witness: a Phase-2 probe is still in flight after a Phase 1 in which a
\* device answered and another did not
C7_Witness ==
    /\ \E i \in 1..Len(threads[2]) : ~Finished(threads[2][i])
    /\ Answered(1) # {}
    /\ Answered(1) # 1..Len(threads[1])

\* the neighbour addresses the Phase-1 units report under a name that is not a
\* key of the Phase-1 result
UnknownNeighbours ==
    UNION {{units1[i][2].nodes[j].ip :
                j \in {k \in 1..Len(units1[i][2].nodes) :
                          units1[i][2].nodes[k].name \notin Keys(units1)}} :
           i \in 1..Len(units1)}

\* C8: Phase 2 probes exactly the neighbour addresses that Phase-1 units
\* report under a name that is not a key of the Phase-1 result; the mapping
\* discoverUnits returns has every Phase-1 key and the derived name of every
\* neighbour that answered.
C8_DiscoveryMerge ==
    /\ phase = 2 => Range(iplist[2]) = UnknownNeighbours
    /\ (phase = 2 /\ dpc # "spawn") =>
          {threads[2][i].ip : i \in 1..Len(threads[2])} = UnknownNeighbours
    /\ dpc = "returned" =>
          /\ Keys(units1) \subseteq Keys(units)
          /\ \A i \in Answered(2) : _getUnitName(threads[2][i].data[1]).name \in Keys(units)

\* C8 witness: Phase 1 found A alone, A reports neighbour B, B answered the
\* Phase-2 probe, and the returned mapping holds A and B
C8_Witness ==
    /\ dpc = "returned"
    /\ Keys(units1) = {NameA}
    /\ Answered(2) # {}
    /\ Keys(units) = {NameA, NameB}

-----------------------------------------------------------------------------
(* The island decoder, main.py 77-137                                      *)

\* a cell is a text, written as its tokens; the empty cell is <<>>
Blank == <<>>

\* line 22
ISLAND_CORNER == <<"units IP/addr">>

\* the labels of the header row, lines 98 and 105-107
URL == <<"URL">>
CONTROL_NAME == <<"control name">>
VALUE == <<"value">>

\* whether table[r][c] is a cell of the grid; reading any other raises IndexError
hasCell(t, r, c) == r <= Len(t) /\ c <= Len(t[r])

\* mutant of getIslandRow: the url is not filled from the previous row
getIslandRowNoFill(t, r, c, previous) == Row(t[r][c], t[r][c + 1], t[r][c + 2])

\* getIslandRow, lines 130-137, of a row that has its three cells; previous
\* is <<>> for None, else <<row>>
getIslandRow(t, r, c, previous) ==
    LET url == t[r][c]
        control == t[r][c + 1]
        value == t[r][c + 2]
    IN Row(IF previous # <<>> /\ url = Blank THEN previous[1].url ELSE url, control, value)

\* line 114: an empty row or the next island header is the bottom of the island
isBottom(row) == row.control = Blank \/ row.url = ISLAND_CORNER

\* mutant of omitted: comments are kept
omittedNever(row) == FALSE

\* line 118: comments are omitted
omitted(row) == startswith(row.control, "#")

\* mutant of urlsAppend: every row opens a page of its own
urlsAppendNew(d, row) == Append(d, [url |-> row.url, rows |-> <<row>>])

\* line 121, urls[row.url].append(row) on the defaultdict: urls as the
\* sequence of its pages in insertion order
urlsAppend(d, row) ==
    IF \E i \in 1..Len(d) : d[i].url = row.url
    THEN [i \in 1..Len(d) |->
            IF d[i].url = row.url THEN [d[i] EXCEPT !.rows = Append(@, row)] ELSE d[i]]
    ELSE Append(d, [url |-> row.url, rows |-> <<row>>])

\* the dataclass Island, lines 34-38
Island(u, d, dat) == [units |-> u, urls |-> d, data |-> dat]

\* readIslands lines 80-81: add an empty row as wide as the last one
readIslands ==
    /\ rpc = "start"
    /\ IF table = <<>>
       THEN /\ rpc' = "raised"
            /\ rexc' = "IndexError"
            /\ table' = table
       ELSE /\ rpc' = "scan"
            /\ rexc' = rexc
            /\ table' = Append(table, [i \in 1..Len(table[Len(table)]) |-> Blank])
    /\ UNCHANGED <<notDecode, srow, scol, roffset, isUnits, isData, isUrls, prevRow, decoded>>

\* readIslands lines 82-84 and 87-88, loadIsland lines 92-95: look at the next
\* cell of the scan; a corner cell starts an island
Scan ==
    /\ rpc = "scan"
    /\ IF srow > Len(table)
       THEN /\ rpc' = "returned"
            /\ UNCHANGED <<srow, scol, roffset, isUnits>>
       ELSE IF scol > Len(table[srow])
       THEN /\ srow' = srow + 1
            /\ scol' = 1
            /\ UNCHANGED <<rpc, roffset, isUnits>>
       ELSE IF table[srow][scol] = ISLAND_CORNER
       THEN /\ rpc' = "units"
            /\ roffset' = 1
            /\ isUnits' = <<>>
            /\ UNCHANGED <<srow, scol>>
       ELSE /\ scol' = scol + 1
            /\ UNCHANGED <<rpc, srow, roffset, isUnits>>
    /\ UNCHANGED <<notDecode, table, isData, isUrls, prevRow, decoded, rexc>>

\* loadIsland lines 96-101: the next cell below the corner is a unit, unless
\* the header row starts there
ReadUnit ==
    /\ rpc = "units"
    /\ LET r == srow + roffset
           isUrl == table[r][scol] = URL
           fault == ~hasCell(table, r, scol) \/ (isUrl /\ ~hasCell(table, r, scol + 1))
       IN IF fault
          THEN /\ rpc' = "raised"
               /\ rexc' = "IndexError"
               /\ UNCHANGED <<roffset, isUnits>>
          ELSE IF isUrl /\ table[r][scol + 1] = CONTROL_NAME
          THEN /\ rpc' = "header"
               /\ UNCHANGED <<rexc, roffset, isUnits>>
          ELSE /\ isUnits' = Append(isUnits, table[r][scol])
               /\ roffset' = roffset + 1
               /\ UNCHANGED <<rpc, rexc>>
    /\ UNCHANGED <<notDecode, table, srow, scol, isData, isUrls, prevRow, decoded>>

\* loadIsland lines 103-111: the header row has to hold the three labels
ReadHeader ==
    /\ rpc = "header"
    /\ LET r == srow + roffset
       IN IF ~hasCell(table, r, scol + 2)
          THEN /\ rpc' = "raised"
               /\ rexc' = "IndexError"
               /\ UNCHANGED <<roffset, isData, isUrls, prevRow>>
          ELSE LET header == getIslandRow(table, r, scol, <<>>)
               IN IF header.url = URL /\ header.control = CONTROL_NAME /\ header.value = VALUE
                  THEN /\ rpc' = "data"
                       /\ roffset' = roffset + 1
                       /\ prevRow' = <<>>
                       /\ isData' = <<>>
                       /\ isUrls' = <<>>
                       /\ rexc' = rexc
                  ELSE /\ rpc' = "raised"
                       /\ rexc' = "AssertionError"
                       /\ UNCHANGED <<roffset, isData, isUrls, prevRow>>
    /\ UNCHANGED <<notDecode, table, srow, scol, isUnits, decoded>>

\* loadIsland lines 112-127 and readIslands line 86: one round of the data
\* loop; at the bottom the island is appended and the scan goes on
ReadData ==
    /\ rpc = "data"
    /\ LET r == srow + roffset
       IN IF ~hasCell(table, r, scol + 2)
          THEN /\ rpc' = "raised"
               /\ rexc' = "IndexError"
               /\ UNCHANGED <<scol, roffset, isData, isUrls, prevRow, decoded>>
          ELSE LET row == getIslandRow(table, r, scol, prevRow)
               IN IF isBottom(row)
                  THEN /\ decoded' = Append(decoded, Island(isUnits, isUrls, isData))
                       /\ rpc' = "scan"
                       /\ scol' = scol + 1
                       /\ UNCHANGED <<rexc, roffset, isData, isUrls, prevRow>>
                  ELSE /\ isData' = IF omitted(row) THEN isData ELSE Append(isData, row)
                       /\ isUrls' = IF omitted(row) THEN isUrls ELSE urlsAppend(isUrls, row)
                       /\ roffset' = roffset + 1
                       /\ prevRow' = <<row>>
                       /\ UNCHANGED <<rpc, rexc, scol, decoded>>
    /\ UNCHANGED <<notDecode, table, srow, isUnits>>

NextDecode == readIslands \/ Scan \/ ReadUnit \/ ReadHeader \/ ReadData

\* ---- the grids ----

MaxData == 3
MaxUnitRows == 2

\* a row of three cells
Cells(a, b, c) == <<a, b, c>>

U1 == <<"u1">>
U2 == <<"u2">>

CornerRow == Cells(ISLAND_CORNER, Blank, Blank)
UnitRow(u) == Cells(u, Blank, Blank)
HeaderRow == Cells(URL, CONTROL_NAME, VALUE)
BlankRow == Cells(Blank, Blank, Blank)
JunkRow == Cells(<<"x">>, <<"y">>, <<"z">>)

\* data rows: with and without a url, comments with and without a url, and a
\* row without a value
DataRowSet ==
    {Cells(<<"/a">>, <<"t">>, <<"1">>),
     Cells(Blank, <<"c">>, <<"2">>),
     Cells(<<"/b">>, <<"#", "n">>, <<"3">>),
     Cells(Blank, <<"#", "n">>, Blank),
     Cells(<<"/b">>, <<"t">>, Blank)}

\* header rows: the three labels, a wrong third label, a wrong second label, a
\* row that ends after the second label, and no header row
HeaderSet ==
    {<<HeaderRow>>, <<Cells(URL, CONTROL_NAME, <<"val">>)>>,
     <<Cells(URL, <<"control">>, VALUE)>>, <<<<URL, CONTROL_NAME>>>>, <<>>}

\* a second island right below, whose first data row has no url
Stacked == <<CornerRow, UnitRow(U2), HeaderRow, Cells(Blank, <<"c">>, <<"2">>)>>

\* what follows the data rows: nothing; a blank row and more rows; a row with
\* no control and more rows; an empty row, as a blank line of a CSV file gives;
\* a second island
EndingSet ==
    {<<>>, <<BlankRow, JunkRow>>, <<Cells(<<"/a">>, Blank, <<"9">>), JunkRow>>,
     <<<<>>>>, Stacked}

\* the grid with its island moved off columns to the right
Shift(t, off) ==
    [r \in 1..Len(t) |-> IF t[r] = <<>> THEN <<>> ELSE [i \in 1..off |-> Blank] \o t[r]]

\* one island with any data rows and any ending
DataGrids ==
    {Shift(<<CornerRow, UnitRow(U1), HeaderRow>> \o d \o e, off) :
        d \in SeqsUpTo(DataRowSet, 0, MaxData), e \in EndingSet, off \in {0, 1}}

\* any rows above, any units, any header, one data row
ShapeGrids ==
    {Shift(above \o <<CornerRow>> \o [i \in 1..Len(u) |-> UnitRow(u[i])] \o h
             \o <<Cells(<<"/a">>, <<"t">>, <<"1">>)>> \o e, off) :
        above \in {<<>>, <<JunkRow>>}, u \in SeqsUpTo({U1, Blank}, 0, MaxUnitRows),
        h \in HeaderSet, e \in {<<>>, <<BlankRow, JunkRow>>, Stacked}, off \in {0, 1}}

\* the tables readIslands is called with; readWebTable gives <<>> for a table
\* without rows
Grids == DataGrids \cup ShapeGrids \cup {<<>>, <<JunkRow>>}

InitDecode ==
    /\ IdleApply
    /\ IdleDiscover
    /\ IdleControl
    /\ table \in Grids
    /\ rpc = "start"
    /\ srow = 1
    /\ scol = 1
    /\ roffset = 1
    /\ isUnits = <<>>
    /\ isData = <<>>
    /\ isUrls = <<>>
    /\ prevRow = <<>>
    /\ decoded = <<>>
    /\ rexc = "none"

SpecDecode == InitDecode /\ [][NextDecode]_vars

-----------------------------------------------------------------------------
(* The island decoder: the claims                                          *)

\* the positions <<row, column>> of the cells of a grid in scan order
RECURSIVE Positions(_, _)
Positions(t, r) ==
    IF r > Len(t) THEN <<>> ELSE [c \in 1..Len(t[r]) |-> <<r, c>>] \o Positions(t, r + 1)

\* the corner cells of the grid in scan order
Corners == SelectSeq(Positions(table, 1), LAMBDA m : table[m[1]][m[2]] = ISLAND_CORNER)

\* the cells of grid row k that an island with its corner in column c reads
UrlCell(k, c) == table[k][c]
ControlCell(k, c) == table[k][c + 1]
ValueCell(k, c) == table[k][c + 2]

\* row k starts like a header, and holds the three labels
HeaderStart(k, c) == UrlCell(k, c) = URL /\ ControlCell(k, c) = CONTROL_NAME
HeaderAt(k, c) == HeaderStart(k, c) /\ ValueCell(k, c) = VALUE

\* row k terminates an island: no control, or the marker as its url
Terminates(k, c) == ControlCell(k, c) = Blank \/ UrlCell(k, c) = ISLAND_CORNER

Least(S) == CHOOSE k \in S : \A j \in S : k <= j
Greatest(S) == CHOOSE k \in S : \A j \in S : j <= k

\* the header row and the terminating row of the island with its corner at m
HeaderOf(m) == Least({k \in (m[1] + 1)..Len(table) : HeaderStart(k, m[2])})
BottomOf(m) == Least({k \in (HeaderOf(m) + 1)..Len(table) : Terminates(k, m[2])})

\* the grid rows of the non-comment data rows of the island, top to bottom
SourceRows(m) ==
    SelectSeq([i \in 1..(BottomOf(m) - HeaderOf(m) - 1) |-> HeaderOf(m) + i],
              LAMBDA k : ~startswith(ControlCell(k, m[2]), "#"))

\* the island with its corner at m is well formed: from the corner down to a
\* terminating row every row has the island's three columns, and the first
\* row that starts like a header holds the three labels
WellFormed(m) ==
    \E h \in (m[1] + 1)..Len(table) : \E e \in (h + 1)..Len(table) :
        /\ \A k \in m[1]..e : Len(table[k]) >= m[2] + 2
        /\ HeaderAt(h, m[2])
        /\ \A k \in (m[1] + 1)..(h - 1) : ~HeaderStart(k, m[2])
        /\ Terminates(e, m[2])

\* C9: for a grid with exactly one island, and that one well formed,
\* readIslands returns exactly one Island; its data holds as many rows as
\* there are non-comment rows between the header and the terminating row, and
\* they are those rows in order, so that no row at or below the terminating
\* row is in the island.
C9_OneIslandRowCount ==
    (rpc \in {"returned", "raised"} /\ Len(Corners) = 1 /\ WellFormed(Corners[1])) =>
        /\ rpc = "returned"
        /\ Len(decoded) = 1
        /\ Len(decoded[1].data) = Len(SourceRows(Corners[1]))
        /\ \A i \in 1..Len(decoded[1].data) :
              /\ SourceRows(Corners[1])[i] < BottomOf(Corners[1])
              /\ decoded[1].data[i].control
                    = ControlCell(SourceRows(Corners[1])[i], Corners[1][2])
              /\ decoded[1].data[i].value
                    = ValueCell(SourceRows(Corners[1])[i], Corners[1][2])

\* C9 witness: one well-formed island was decoded into two or more rows, a
\* comment between them was left out, and the row below the terminating row
\* has a control
C9_Witness ==
    /\ rpc = "returned"
    /\ Len(Corners) = 1
    /\ WellFormed(Corners[1])
    /\ Len(decoded) = 1
    /\ Len(decoded[1].data) >= 2
    /\ Len(decoded[1].data) < BottomOf(Corners[1]) - HeaderOf(Corners[1]) - 1
    /\ BottomOf(Corners[1]) + 1 < Len(table)
    /\ ControlCell(BottomOf(Corners[1]) + 1, Corners[1][2]) # Blank

\* the grid rows of the island at m above row k whose url cell is not blank
UrlsAbove(m, k) == {j \in (HeaderOf(m) + 1)..(k - 1) : UrlCell(j, m[2]) # Blank}

\* the rows of all pages of an island
PageRows(island) == UNION {Range(island.urls[p].rows) : p \in 1..Len(island.urls)}

\* C10: in every decoded island, a data row whose url cell is blank has the
\* url of the nearest row above it in the island whose url cell is not blank,
\* comment rows included; no comment row is in data or in urls; control and
\* value are the row's own cells, blank or not.
C10_ForwardFill ==
    rpc = "returned" =>
        /\ Len(decoded) = Len(Corners)
        /\ \A j \in 1..Len(decoded) :
              /\ Len(decoded[j].data) = Len(SourceRows(Corners[j]))
              /\ \A i \in 1..Len(decoded[j].data) :
                    LET k == SourceRows(Corners[j])[i]
                        c == Corners[j][2]
                        row == decoded[j].data[i]
                    IN /\ (UrlCell(k, c) = Blank /\ UrlsAbove(Corners[j], k) # {}) =>
                              row.url = UrlCell(Greatest(UrlsAbove(Corners[j], k)), c)
                       /\ UrlCell(k, c) # Blank => row.url = UrlCell(k, c)
                       /\ row.control = ControlCell(k, c)
                       /\ row.value = ValueCell(k, c)
                       /\ ~startswith(row.control, "#")
              /\ \A row \in PageRows(decoded[j]) : ~startswith(row.control, "#")

\* C10 witness: a decoded row without a url cell got its url from a comment
\* row, across a second comment row that has no url cell either
C10_Witness ==
    /\ rpc = "returned"
    /\ \E j \in 1..Len(decoded) : \E i \in 1..Len(decoded[j].data) :
          LET k == SourceRows(Corners[j])[i]
              c == Corners[j][2]
          IN /\ UrlCell(k, c) = Blank
             /\ startswith(ControlCell(k - 1, c), "#")
             /\ UrlCell(k - 1, c) = Blank
             /\ startswith(ControlCell(k - 2, c), "#")
             /\ UrlCell(k - 2, c) # Blank
             /\ decoded[j].data[i].url = UrlCell(k - 2, c)

\* the urls of a list of rows in the order of their first occurrence
RECURSIVE FirstSeen(_)
FirstSeen(rows) ==
    IF rows = <<>> THEN <<>>
    ELSE LET before == FirstSeen(SubSeq(rows, 1, Len(rows) - 1))
             u == rows[Len(rows)].url
         IN IF u \in Range(before) THEN before ELSE Append(before, u)

\* C11: in every decoded island the keys of urls are the urls of the rows of
\* data in the order of their first occurrence, each once, and the bucket of a
\* key holds exactly the rows of data with that url, in the order of data; so
\* every row of data is in the bucket of its own url and in no other, and the
\* buckets hold nothing else.
C11_BucketsPartitionData ==
    \A j \in 1..Len(decoded) :
        /\ [p \in 1..Len(decoded[j].urls) |-> decoded[j].urls[p].url]
              = FirstSeen(decoded[j].data)
        /\ \A p \in 1..Len(decoded[j].urls) :
              decoded[j].urls[p].rows
                 = SelectSeq(decoded[j].data, LAMBDA row : row.url = decoded[j].urls[p].url)

\* C11 witness: an island whose first and third rows share a url that the
\* second row does not have, decoded into two pages
C11_Witness ==
    /\ rpc = "returned"
    /\ \E j \in 1..Len(decoded) :
          /\ Len(decoded[j].data) = 3
          /\ decoded[j].data[1].url = decoded[j].data[3].url
          /\ decoded[j].data[1].url # decoded[j].data[2].url
          /\ Len(decoded[j].urls) = 2
          /\ Len(decoded[j].urls[1].rows) = 2

\* the corner at m has, somewhere below it in its column, a row that holds the
\* three labels
Followed(m) == \E k \in (m[1] + 1)..Len(table) : Len(table[k]) >= m[2] + 2 /\ HeaderAt(k, m[2])

\* readIslands has ended, by returning or by raising
DecodeEnded == rpc \in {"returned", "raised"}

\* a grid with a corner that no header row follows makes readIslands raise
\* and return nothing
FaultWithoutHeader ==
    (DecodeEnded /\ \E i \in 1..Len(Corners) : ~Followed(Corners[i])) =>
        rpc = "raised" /\ rexc \in {"AssertionError", "IndexError"}

\* C12: readIslands raises, returning no islands, whenever some corner is not
\* followed in its column by a row holding exactly the three labels; it
\* returns the empty list when the grid has no corner cell; and it ends in no
\* other way than raising, returning the empty list or returning the islands.
C12_FaultOrEmptyOrIslands ==
    /\ FaultWithoutHeader
    /\ (DecodeEnded /\ Corners = <<>>) => (rpc = "returned" /\ decoded = <<>>)
    /\ rpc = "returned" => Len(decoded) = Len(Corners)

-----------------------------------------------------------------------------
(* The control adapters called on their own, main.py 140-223               *)

MaxCalls == 2

\* a single select with the options a, b labelled Alpha, Beta
Select(v) ==
    [type |-> "select", value |-> <<v>>,
     options |-> <<"a", "b">>, displayOptions |-> <<"Alpha", "Beta">>]

\* a single select whose option values are also labels, of the other option
Crossed(v) ==
    [type |-> "select", value |-> <<v>>,
     options |-> <<"a", "b">>, displayOptions |-> <<"b", "a">>]

\* the controls a form may hold
Controls ==
    <<[type |-> "text", value |-> "a"],
      [type |-> "checkbox", value |-> FALSE], [type |-> "checkbox", value |-> TRUE],
      Select("a"), Select("b"), Crossed("a"),
      [type |-> "password", value |-> ""], [type |-> "hidden", value |-> "x"]>>

\* the desired values of a row
ValueSet == {"a", "b", "Alpha", "Beta", "zz", "1", "T", "y", ""}

\* what a call gave: ok is FALSE for a call that raised ValueError, ret is
\* <<>> or <<the value returned>>, bc is the browserControl before the call
Call(op, value, ok, ret) ==
    [op |-> op, value |-> value, ok |-> ok, ret |-> ret, class |-> adapter.class,
     bc |-> adapter.bc]

\* control.read()
CallRead ==
    /\ adapter.class # "none"
    /\ Len(calls) < MaxCalls
    /\ calls' = Append(calls, Call("read", "", TRUE, <<read(adapter.class, adapter.bc)>>))
    /\ UNCHANGED <<notControl, adapter>>

\* control.changed(newValue)
CallChanged ==
    /\ adapter.class # "none"
    /\ Len(calls) < MaxCalls
    /\ \E v \in ValueSet :
          calls' = Append(calls, Call("changed", v, TRUE,
                                      <<Changed(adapter.class, adapter.bc, v)>>))
    /\ UNCHANGED <<notControl, adapter>>

\* control.write(value)
CallWrite ==
    /\ adapter.class # "none"
    /\ Len(calls) < MaxCalls
    /\ \E v \in ValueSet :
          LET w == write(adapter.class, adapter.bc, v)
          IN /\ calls' = Append(calls, Call("write", v, w.ok, <<>>))
             /\ adapter' = [adapter EXCEPT !.bc = w.bc]
    /\ UNCHANGED notControl

\* processUnit lines 323-324: the adapter of a control of the form
InitControl ==
    /\ IdleApply
    /\ IdleDiscover
    /\ IdleDecode
    /\ \E i \in 1..Len(Controls) :
          adapter = [class |-> CTRL_MAPPING(Controls[i].type), bc |-> Controls[i]]
    /\ calls = <<>>

NextControl == CallRead \/ CallChanged \/ CallWrite

SpecControl == InitControl /\ [][NextControl]_vars

\* the calls of changed on a Combo
ComboChanged == {k \in 1..Len(calls) : calls[k].op = "changed" /\ calls[k].class = "Combo"}

\* C13: Combo.changed(desired) compares desired with the selected display
\* label when desired is a display label, else with the selected option value
\* when desired is an option value, and raises ValueError when desired is
\* neither.
C13_ComboChanged ==
    \A k \in ComboChanged :
        LET bc == calls[k].bc
            v == calls[k].value
        IN IF v \in Range(bc.displayOptions)
           THEN calls[k].ok /\ calls[k].ret = <<displayValue(bc)[1] # v>>
           ELSE IF v \in Range(bc.options)
           THEN calls[k].ok /\ calls[k].ret = <<bc.value[1] # v>>
           ELSE ~calls[k].ok

-----------------------------------------------------------------------------
(* The page walk: resubmitting controls                                    *)

\* the submissions the end-of-page step of a page visit made
EndSubmits(key) == {k \in EventsOf(key, "submit") : trace[k].row = Len(RowsOf(key)) + 1}

\* the changed control of the event at k needs resubmit
Resubmits(k) == needPost(trace[k].data.class, trace[k].data.bc)

\* C14: in a non-dry-run apply a changed control that needs resubmit is
\* followed at once by a submission of its row, and a finished page whose only
\* changed row was resubmitted that way has no submission at end of page.
C14_ResubmitConsumesChanged ==
    ~dryRun =>
        \A key \in Ended :
            /\ \A k \in EventsOf(key, "changed") :
                  Resubmits(k) =>
                      /\ k < Len(trace)
                      /\ trace[k + 1].ev = "submit"
                      /\ trace[k + 1].row = trace[k].row
            /\ (Cardinality(EventsOf(key, "changed")) = 1
                  /\ \A k \in EventsOf(key, "changed") : Resubmits(k)) =>
                  EndSubmits(key) = {}

-----------------------------------------------------------------------------
(* Discovery: timeouts, addresses and names                                *)

\* C15: whatever timeout discover was given, every Phase-2 probe has three
\* times the timeout of the Phase-1 probes of the run.
C15_Phase2TimeoutTripled ==
    \A i \in 1..Len(threads[1]) : \A j \in 1..Len(threads[2]) :
        threads[2][j].timeout = 3 * threads[1][i].timeout

\* the threads of phase ph have all been started
Started(ph) == phase > ph \/ (phase = ph /\ dpc \notin {"start", "spawn"})

\* C16: the probes of one phase have pairwise distinct addresses: Phase 1
\* probes each host address of the /24 once, and Phase 2 probes no neighbour
\* address twice, also when several Phase-1 units report the same neighbour.
C16_DistinctAddresses ==
    /\ Started(1) => [i \in 1..Len(threads[1]) |-> threads[1][i].ip]
                        = [n \in 1..LastHost |-> Host(n)]
    /\ \A ph \in 1..2 : \A i, j \in 1..Len(threads[ph]) :
          i # j => threads[ph][i].ip # threads[ph][j].ip

\* a status document carries the unit-name field or the address field
Carries(d) == d.name # <<>> \/ d.ip # <<>>

\* the name of a document that carries one of the fields: the unit name when
\* present and not empty, else the address, dots replaced
NameOf(d) ==
    IF d.name # <<>> /\ d.name[1] # <<>> THEN Replace(d.name[1]) ELSE Replace(d.ip[1])

\* C17: a probe that got a document carrying the unit-name field or the
\* address field never dies of the name derivation and, once finished, has
\* written the cache file under the derived name (the unit name, or the
\* address when the unit name is absent or empty, dots replaced); and the
\* drain of such documents into the name mapping completes.
C17_NameDerivation ==
    /\ \A ph \in 1..2 : \A i \in Answered(ph) :
          LET d == threads[ph][i].data[1]
          IN Carries(d) =>
                /\ threads[ph][i].pc # "died"
                /\ threads[ph][i].pc = "done" => NameOf(d) \in DOMAIN files
    /\ dpc = "crashed" =>
          \E i \in Answered(phase) : ~Carries(threads[phase][i].data[1])

-----------------------------------------------------------------------------
(* The page walk: button directives                                        *)

\* the walk stands at a button directive, tolerant (`!name?`) or strict
\* (`!name`), and the form has no control of that name
MissingButton(tolerant) ==
    /\ pc = "row"
    /\ ridx <= Len(CurPage.rows)
    /\ LET ctl == CurPage.rows[ridx].control
       IN /\ startswith(ctl, "!")
          /\ ctl \notin {SUBMIT, SUBMIT_IF_CHANGED}
          /\ endswith(ctl, "?") = tolerant
          /\ ~hasControl(form, IF tolerant THEN SubSeq(ctl, 2, Len(ctl) - 1) ELSE Tail(ctl))

C18_Step ==
    /\ pc # "raised"
    /\ MissingButton(TRUE) =>
          /\ UNCHANGED <<form, changed, server, trace, exc>>
          /\ pc' = "row"
          /\ ridx' = ridx + 1
    /\ MissingButton(FALSE) =>
          /\ pc' = "raised"
          /\ exc' = "LookupError"
          /\ UNCHANGED <<server, trace>>

\* C18: a step over a tolerant directive `!name?` whose button the form lacks
\* clicks and submits nothing, leaves the changed flag alone and goes on to
\* the next row; a step over a strict directive `!name` whose button the form
\* lacks ends the run with the lookup fault, and a run that ended with a
\* fault takes no further step.
C18_MissingButton == [][C18_Step]_vars

\* C18 witness: the walk passed a tolerant directive for a missing button,
\* wrote the row after it, and was ended by a strict directive for it
C18_Witness ==
    /\ pc = "raised"
    /\ exc = "LookupError"
    /\ islands[1].urls[1].rows
          = <<Row("/a", <<"!", "nob", "?">>, ""), Row("/a", <<"c">>, "1"),
              Row("/a", <<"!", "nob">>, "")>>
    /\ \E k \in 1..Len(trace) : trace[k].ev = "write" /\ trace[k].row = 2
    /\ \A k \in 1..Len(trace) : trace[k].row \notin {1, 3}

\* the names of the documents the probes of phase ph got
NamesGot(ph) == {NameOf(threads[ph][i].data[1]) : i \in Answered(ph)}

\* C19: whatever the interleaving of the probes, the mapping drained from a
\* phase's collector has as its keys, each once, exactly the names of the
\* documents the probes of the phase got; a probe that got none adds nothing
\* and takes nothing away.
C19_CollectorKeepsResults ==
    /\ phase = 2 =>
          /\ Keys(units1) = NamesGot(1)
          /\ Cardinality(Keys(units1)) = Len(units1)
    /\ dpc = "returned" =>
          /\ Keys(loaded) = NamesGot(2)
          /\ Cardinality(Keys(loaded)) = Len(loaded)

\* C19 witness: in Phase 1 the second probe put its document before the
\* first, and both are in the result; in Phase 2 one probe of two got a
\* document, and it is in the result
C19_Witness ==
    /\ dpc = "returned"
    /\ Len(units1) = 2
    /\ units1[1][2] = threads[1][2].data[1]
    /\ units1[1][2] # threads[1][1].data[1]
    /\ Len(threads[2]) = 2
    /\ Cardinality(Answered(2)) = 1
    /\ Len(loaded) = 1

-----------------------------------------------------------------------------
(* The control adapters: write and changed                                 *)

\* C20: on a control of any kind but Password, changed(v) called right after
\* a write(v) that succeeded is false, also on a Combo whose option values
\* and display labels overlap.
C20_WriteThenUnchanged ==
    \A k \in 1..(Len(calls) - 1) :
        (/\ calls[k].class # "Password"
         /\ calls[k].op = "write"
         /\ calls[k].ok
         /\ calls[k + 1].op = "changed"
         /\ calls[k + 1].value = calls[k].value) =>
            calls[k + 1].ret = <<FALSE>>


-----------------------------------------------------------------------------
\* the writes of a page visit that no later submission of the visit followed
Unsubmitted(key) ==
    {k \in EventsOf(key, "write") : \A j \in EventsOf(key, "submit") : j < k}

\* C21: in a non-dry-run apply, on every page the walk has finished (its
\* end-of-page step was taken, so no row raised), every control write of the
\* visit is followed by a form submission of the same visit, whatever mix of
\* ordinary rows, `!submit`, `!submit?` and button directives the page holds.
C21_NoUnsubmittedWrite ==
    ~dryRun => \A key \in Ended : Unsubmitted(key) = {}

\* C21 witness: the page <<t = b, !submit?, c = 1>> is finished; the
\* `!submit?` row submitted the first write and lowered the flag, the second
\* write raised it again and the end of the page submitted it
C21_Witness ==
    /\ ~dryRun
    /\ <<1, 1, 1>> \in Ended
    /\ RowsOf(<<1, 1, 1>>) = <<Row("/a", <<"t">>, "b"), Row("/a", SUBMIT_IF_CHANGED, ""),
                               Row("/a", <<"c">>, "1")>>
    /\ {trace[k].row : k \in EventsOf(<<1, 1, 1>>, "write")} = {1, 3}
    /\ {trace[k].row : k \in EventsOf(<<1, 1, 1>>, "submit")} = {2, 4}

=============================================================================
